---- MODULE Spec2Model ----
(***************************************************************************)
(* A model of three leaf components of the repository:                     *)
(*   - scripts/export_jasper_to_onnx.py: main(), the one-shot export run,  *)
(*     and the legacy (pre v0.9) checkpoint key remapping it contains;     *)
(*   - nemo/collections/cv/modules/trainables/lenet5.py: the fixed layer   *)
(*     pipeline of LeNet5, followed shape by shape.                        *)
(* Strings that the remapping rewrites are sequences of atoms: each of     *)
(* "conv" and "weight" is one atom (the two words share no prefix or       *)
(* suffix with each other or with themselves, so a match of the patterns   *)
(* '.conv.', '.weight' on characters is a match on atoms), "." and "m" are *)
(* the characters themselves and "x" is any other character.               *)
(***************************************************************************)
EXTENDS Integers, Sequences, FiniteSets, TLC

VARIABLES
    \* ---- main(): arguments and the world it runs in
    config_file,        \* top-level keys of the YAML document on disk
    decoder_type,       \* argument decoder_type
    pre_v09_model,      \* argument pre_v09_model
    nn_onnx_encoder,    \* argument: output path, a sequence of components
    nn_onnx_decoder,    \* argument: output path, a sequence of components
    fs0,                \* the file system when the run starts
    fs,                 \* the file system: path -> "absent" | "dir" | "file"
    \* ---- main(): locals and position
    pc,                 \* the statement main() is about to execute
    jasper_model_definition,  \* the parsed config (a set of keys), or unbound
    nf,                 \* "unbound" | "held"
    jasper_encoder,     \* "unbound" | "held" | "deleted"
    jasper_decoder,     \* "unbound" | "held" | "deleted"
    encoder_weights,    \* how the encoder's weights were loaded
    decoder_weights,    \* how the decoder's weights were loaded
    \* ---- main(): history
    steps,              \* the steps executed so far, in order
    failed_step,        \* the step that raised, or "none"
    error,              \* the exception that ended the run, or "none"
    calls,              \* checkpoint calls made so far (torch.load, restore_from, ...)
    mkdirs,             \* directory -> number of times the run created it
    exported,           \* artifacts written: records [module, path]
    \* ---- the legacy remapping on its own
    ckpt,               \* the checkpoint's items, in iteration order
    new_ckpt,           \* the remapped checkpoint: key -> tensor
    converted,          \* whether the remapping loop has run
    \* ---- LeNet5.forward
    images,             \* the shape of the input batch
    x,                  \* the shape of the activation after `layer` layers
    layer,              \* number of layers of self.model applied so far
    shape_error         \* whether a layer rejected its input

mainVars == <<config_file, decoder_type, pre_v09_model, nn_onnx_encoder,
              nn_onnx_decoder, fs0, fs, pc, jasper_model_definition, nf,
              jasper_encoder, jasper_decoder, encoder_weights, decoder_weights,
              steps, failed_step, error, calls, mkdirs, exported>>
remapVars == <<ckpt, new_ckpt, converted>>
lenetVars == <<images, x, layer, shape_error>>
vars == <<mainVars, remapVars, lenetVars>>

----------------------------------------------------------------------------
(* Bounds of the model *)

\* longest key, in atoms, of the single-entry checkpoints
MaxKeyLen == 6
\* tensors have 1..MaxRank dimensions
MaxRank == 4
\* the keys of the multi-entry checkpoints have up to MaxDepth dotted segments after the module name
MaxDepth == 2
\* entries of a multi-entry checkpoint
MaxEntries == 2
\* images in a batch
MaxBatch == 3

----------------------------------------------------------------------------
(* str.replace and the key remapping *)

\* '.conv.'
CONV == <<".", "conv", ".">>
\* '.mconv.'
MCONV == <<".", "m", "conv", ".">>
\* '.weight'
WEIGHT == <<".", "weight">>
\* '.conv.weight'
CONV_WEIGHT == <<".", "conv", ".", "weight">>

\* s[i:].startswith(p)
MatchAt(s, p, i) ==
    /\ i + Len(p) - 1 <= Len(s)
    /\ \A j \in 1..Len(p) : s[i + j - 1] = p[j]

\* p in s
Contains(s, p) == \E i \in 1..Len(s) : MatchAt(s, p, i)

RECURSIVE ReplaceFrom(_, _, _, _)
ReplaceFrom(s, old, new, i) ==
    IF i > Len(s) THEN <<>>
    ELSE IF MatchAt(s, old, i)
         THEN new \o ReplaceFrom(s, old, new, i + Len(old))
         ELSE <<s[i]>> \o ReplaceFrom(s, old, new, i + 1)

\* s.replace(old, new): the non-overlapping matches, leftmost first
Replace(s, old, new) == ReplaceFrom(s, old, new, 1)

\* RemapKey with the rank test written `>= 3`
RemapKey_RankAtLeast3(k, ndim) ==
    LET new_k == Replace(k, CONV, MCONV)
    IN  IF ndim >= 3 THEN Replace(new_k, WEIGHT, CONV_WEIGHT) ELSE new_k

\* the new key of one checkpoint item: the body of the conversion loop
RemapKey(k, ndim) ==
    LET new_k == Replace(k, CONV, MCONV)
    IN  IF ndim = 3 THEN Replace(new_k, WEIGHT, CONV_WEIGHT) ELSE new_k

\* new_ckpt = {}
EmptyDict == [k \in {} |-> [ndim |-> 0, id |-> 0]]

\* SetItem as d.setdefault(k, v): the first value under a key stays
SetItem_KeepFirst(d, k, v) ==
    [j \in DOMAIN d \cup {k} |-> IF j \in DOMAIN d THEN d[j] ELSE v]

\* d[k] = v
SetItem(d, k, v) == [j \in DOMAIN d \cup {k} |-> IF j = k THEN v ELSE d[j]]

RECURSIVE RemapItems(_, _, _)
RemapItems(items, i, d) ==
    IF i > Len(items) THEN d
    ELSE RemapItems(items, i + 1,
                    SetItem(d, RemapKey(items[i].k, items[i].v.ndim), items[i].v))

\* the conversion loop over ckpt.items(), from an empty new_ckpt
RemapCheckpoint(items) == RemapItems(items, 1, EmptyDict)

----------------------------------------------------------------------------
(* Checkpoints: what torch.load can return *)

\* the characters of a free-form key ("x": any character that is not one of
\* '.', 'm' or a letter of the two words)
KeyAtoms == {".", "conv", "weight", "x"}

\* every string of 1..n atoms
Strings(n) == UNION {[1..m -> KeyAtoms] : m \in 1..n}

Ranks == 1..MaxRank

\* the i-th tensor of a checkpoint, of ndim dimensions
Tensor(ndim, i) == [ndim |-> ndim, id |-> i]

\* checkpoints of one item, under any key
KeyCheckpoints ==
    {<<[k |-> key, v |-> Tensor(r, 1)]>> : key \in Strings(MaxKeyLen), r \in Ranks}

\* the inner segments of a parameter name, old and new convention
Segments == {<<".", "conv">>, <<".", "m", "conv">>}

RECURSIVE Dotted(_)
\* 'x' followed by exactly n inner segments
Dotted(n) ==
    IF n = 0 THEN {<<"x">>}
    ELSE {p \o s : p \in Dotted(n - 1), s \in Segments}

\* a module's path: a name and up to MaxDepth inner segments
ModulePaths == UNION {Dotted(n) : n \in 0..MaxDepth}

\* a linear layer's weight has 2 dimensions, a 1-D convolution's has 3
WeightRanks == {2, 3}

\* the parameters of a module: its '.weight', and another ('.bias'), a vector
ParamItems ==
    {[k |-> p \o <<".", "weight">>, ndim |-> r] : p \in ModulePaths, r \in WeightRanks}
        \cup {[k |-> p \o <<".", "x">>, ndim |-> 1] : p \in ModulePaths}

\* the checkpoint whose i-th item is the parameter params[i]
Items(params) ==
    [i \in DOMAIN params |-> [k |-> params[i].k, v |-> Tensor(params[i].ndim, i)]]

\* the keys of a mapping are distinct
Distinct(params) == \A i, j \in DOMAIN params : params[i].k = params[j].k => i = j

----------------------------------------------------------------------------
(* The legacy remapping on its own *)

MainIdle ==
    /\ config_file = {} /\ decoder_type = "ctc" /\ pre_v09_model = FALSE
    /\ nn_onnx_encoder = <<>> /\ nn_onnx_decoder = <<>>
    /\ fs0 = <<>> /\ fs = <<>> /\ pc = "idle"
    /\ jasper_model_definition = [bound |-> FALSE, keys |-> {}] /\ nf = "unbound"
    /\ jasper_encoder = "unbound" /\ jasper_decoder = "unbound"
    /\ encoder_weights = [via |-> "none"] /\ decoder_weights = [via |-> "none"]
    /\ steps = <<>> /\ failed_step = "none" /\ error = "none"
    /\ calls = <<>> /\ mkdirs = <<>> /\ exported = {}

RemapIdle == ckpt = <<>> /\ new_ckpt = EmptyDict /\ converted = FALSE

LeNetIdle == images = <<>> /\ x = <<>> /\ layer = 0 /\ shape_error = FALSE

InitRemapKey ==
    /\ ckpt \in KeyCheckpoints
    /\ new_ckpt = EmptyDict
    /\ converted = FALSE
    /\ MainIdle
    /\ LeNetIdle

InitRemapCheckpoint ==
    /\ \E n \in 1..MaxEntries :
          \E params \in [1..n -> ParamItems] :
              /\ Distinct(params)
              /\ ckpt = Items(params)
    /\ new_ckpt = EmptyDict
    /\ converted = FALSE
    /\ MainIdle
    /\ LeNetIdle

\* lines 96-101: new_ckpt = {}; for k, v in ckpt.items(): ...
Convert ==
    /\ ~converted
    /\ new_ckpt' = RemapCheckpoint(ckpt)
    /\ converted' = TRUE
    /\ UNCHANGED <<ckpt, mainVars, lenetVars>>

NextRemap == Convert

\* the remapping of one item under any key
SpecRemapKey == InitRemapKey /\ [][NextRemap]_vars

\* the remapping of a checkpoint of several parameters
SpecRemapCheckpoint == InitRemapCheckpoint /\ [][NextRemap]_vars

----------------------------------------------------------------------------
(* main(): the file system and the arguments *)

\* the directories an output path of the model can lie in
Dirs == {<<"out">>, <<"out", "sub">>, <<"alt">>}

EncoderPaths ==
    {<<"enc.onnx">>, <<"out", "enc.onnx">>, <<"out", "sub", "enc.onnx">>,
     <<"alt", "enc.onnx">>}

DecoderPaths ==
    {<<"dec.onnx">>, <<"out", "dec.onnx">>, <<"out", "sub", "dec.onnx">>,
     <<"alt", "dec.onnx">>}

\* main() is also callable with a decoder_type argparse would refuse
DecoderTypes == {"ctc", "classification", "other"}

\* the top-level keys a config document may have; "init_params" stands for
\* the nested entries lines 62-63 read
ConfigKeys == {"init_params", "labels"}

\* os.path.split(path)[0]; <<>> is ''
DirName(path) == SubSeq(path, 1, Len(path) - 1)

\* p and the directories above it
Ancestors(p) == {SubSeq(p, 1, i) : i \in 1..Len(p)}

\* a path is there only inside a directory
FileSystems ==
    {f \in [Dirs -> {"absent", "dir", "file"}] :
        \A d \in Dirs : f[d] # "absent" => \A a \in Ancestors(d) \ {d} : f[a] = "dir"}

\* os.path.exists(p): true of a directory and of a file
Exists(f, p) == f[p] # "absent"

\* NeedsCreate that never finds anything to create
NeedsCreate_Never(f, base) == FALSE

\* base_export_dir and not os.path.exists(base_export_dir)
NeedsCreate(f, base) == base # <<>> /\ ~Exists(f, base)

\* os.makedirs(p) can succeed: p is not there, nothing above it is a file
MakedirsCan(f, p) == f[p] = "absent" /\ \A a \in Ancestors(p) : f[a] # "file"

\* what os.makedirs(p) creates: p and the missing directories above it
Created(f, p) == {d \in Ancestors(p) : f[d] = "absent"}

\* the file system after os.makedirs(p)
Makedirs(f, p) == [d \in DOMAIN f |-> IF d \in Created(f, p) THEN "dir" ELSE f[d]]

\* one "create export directory" block: split, test, makedirs. allowed: the
\* operating system lets the directory be created
EnsureDir(f, mk, path, allowed) ==
    LET base == DirName(path)
    IN  IF ~NeedsCreate(f, base)
        THEN [ok |-> TRUE, fs |-> f, mkdirs |-> mk]
        ELSE IF MakedirsCan(f, base) /\ allowed
             THEN [ok |-> TRUE,
                   fs |-> Makedirs(f, base),
                   mkdirs |-> [d \in DOMAIN mk |->
                                  IF d \in Created(f, base) THEN mk[d] + 1 ELSE mk[d]]]
             ELSE [ok |-> FALSE, fs |-> f, mkdirs |-> mk]

\* the export can write path: it lies in the working directory or in a directory
CanWrite(f, path) == DirName(path) = <<>> \/ f[DirName(path)] = "dir"

\* checkpoints a legacy encoder file may hold
EncoderCheckpoints ==
    {<<[k |-> <<"x", ".", "conv", ".", "weight">>, v |-> Tensor(3, 1)],
       [k |-> <<"x", ".", "conv", ".", "x">>, v |-> Tensor(1, 2)]>>,
     <<[k |-> <<"x", ".", "weight">>, v |-> Tensor(2, 1)]>>,
     <<[k |-> <<"x", ".", "conv", ".", "weight">>, v |-> Tensor(2, 1)],
       [k |-> <<"x", ".", "m", "conv", ".", "weight">>, v |-> Tensor(2, 2)]>>}

----------------------------------------------------------------------------
(* main(): the run *)

InitMain ==
    /\ config_file \in SUBSET ConfigKeys
    /\ decoder_type \in DecoderTypes
    /\ pre_v09_model \in BOOLEAN
    /\ nn_onnx_encoder \in EncoderPaths
    /\ nn_onnx_decoder \in DecoderPaths
    /\ fs0 \in FileSystems
    /\ fs = fs0
    /\ pc = "parse_config"
    /\ jasper_model_definition = [bound |-> FALSE, keys |-> {}]
    /\ nf = "unbound"
    /\ jasper_encoder = "unbound"
    /\ jasper_decoder = "unbound"
    /\ encoder_weights = [via |-> "none"]
    /\ decoder_weights = [via |-> "none"]
    /\ steps = <<>>
    /\ failed_step = "none"
    /\ error = "none"
    /\ calls = <<>>
    /\ mkdirs = [d \in Dirs |-> 0]
    /\ exported = {}
    /\ RemapIdle
    /\ LeNetIdle

\* NextPc of a script that logs an exception and goes on
NextPc_LogAndContinue(next, ok) == next

\* where main() goes after a step: on, or out by the uncaught exception
NextPc(next, ok) == IF ok THEN next ELSE "failed"

\* the bookkeeping of a step that ends normally (ok) or raises exc
Finish(step, ok, next, exc) ==
    /\ steps' = Append(steps, step)
    /\ pc' = NextPc(next, ok)
    /\ failed_step' = IF ok THEN failed_step ELSE step
    /\ error' = IF ok THEN error ELSE exc

\* lines 54-65: open and parse the config, read the decoder parameters
ParseConfig ==
    /\ pc = "parse_config"
    /\ \E readable \in BOOLEAN :
          /\ jasper_model_definition' =
                IF readable THEN [bound |-> TRUE, keys |-> config_file]
                ELSE jasper_model_definition
          /\ Finish("parse_config", readable /\ "init_params" \in config_file,
                    "create_factory", IF readable THEN "KeyError" ELSE "OSError")
    /\ UNCHANGED <<config_file, decoder_type, pre_v09_model, nn_onnx_encoder,
                   nn_onnx_decoder, fs0, fs, nf, jasper_encoder, jasper_decoder,
                   encoder_weights, decoder_weights, calls, mkdirs, exported,
                   remapVars, lenetVars>>

\* line 67: nf = nemo.core.NeuralModuleFactory(...)
CreateFactory ==
    /\ pc = "create_factory"
    /\ \E ok \in BOOLEAN :
          /\ nf' = IF ok THEN "held" ELSE nf
          /\ Finish("create_factory", ok, "construct_encoder", "Exception")
    /\ UNCHANGED <<config_file, decoder_type, pre_v09_model, nn_onnx_encoder,
                   nn_onnx_decoder, fs0, fs, jasper_model_definition,
                   jasper_encoder, jasper_decoder, encoder_weights,
                   decoder_weights, calls, mkdirs, exported, remapVars, lenetVars>>

\* line 70: jasper_encoder = nemo_asr.JasperEncoder(...)
ConstructEncoder ==
    /\ pc = "construct_encoder"
    /\ \E ok \in BOOLEAN :
          /\ jasper_encoder' = IF ok THEN "held" ELSE jasper_encoder
          /\ Finish("construct_encoder", ok, "construct_decoder", "Exception")
    /\ UNCHANGED <<config_file, decoder_type, pre_v09_model, nn_onnx_encoder,
                   nn_onnx_decoder, fs0, fs, jasper_model_definition, nf,
                   jasper_decoder, encoder_weights, decoder_weights, calls,
                   mkdirs, exported, remapVars, lenetVars>>

\* DecoderSelect that takes every other decoder_type for 'ctc'
DecoderSelect_DefaultCtc(dt, keys) ==
    IF dt = "classification"
    THEN IF "labels" \in keys THEN "JasperDecoderForClassification"
         ELSE "ValueError: labels"
    ELSE "JasperDecoderForCTC"

\* DecoderSelect that does not look for 'labels'
DecoderSelect_NoLabelsCheck(dt, keys) ==
    IF dt = "ctc" THEN "JasperDecoderForCTC"
    ELSE IF dt = "classification" THEN "JasperDecoderForClassification"
    ELSE "ValueError: decoder_type"

\* lines 72-88: the decoder class to construct, or the ValueError raised
DecoderSelect(dt, keys) ==
    IF dt = "ctc" THEN "JasperDecoderForCTC"
    ELSE IF dt = "classification"
         THEN IF "labels" \in keys THEN "JasperDecoderForClassification"
              ELSE "ValueError: labels"
         ELSE "ValueError: decoder_type"

ValueErrors == {"ValueError: labels", "ValueError: decoder_type"}

\* lines 72-88: jasper_decoder = ..., or raise ValueError
ConstructDecoder ==
    /\ pc = "construct_decoder"
    /\ LET sel == DecoderSelect(decoder_type, jasper_model_definition.keys)
       IN  \E constructed \in BOOLEAN :
              LET ok == sel \notin ValueErrors /\ constructed
              IN  /\ jasper_decoder' = IF ok THEN "held" ELSE jasper_decoder
                  /\ Finish("construct_decoder", ok, "load_encoder",
                            IF sel \in ValueErrors THEN sel ELSE "Exception")
    /\ UNCHANGED <<config_file, decoder_type, pre_v09_model, nn_onnx_encoder,
                   nn_onnx_decoder, fs0, fs, jasper_model_definition, nf,
                   jasper_encoder, encoder_weights, decoder_weights, calls,
                   mkdirs, exported, remapVars, lenetVars>>

Call(fn, on, arg) == [fn |-> fn, on |-> on, arg |-> arg]

\* UseLegacyPath that ignores the flag
UseLegacyPath_Always(flag) == TRUE

\* line 93: if pre_v09_model
UseLegacyPath(flag) == flag

\* lines 93-104: load the encoder's weights
LoadEncoder ==
    /\ pc = "load_encoder"
    /\ IF UseLegacyPath(pre_v09_model)
       THEN \E loaded, applied \in BOOLEAN, c \in EncoderCheckpoints :
               /\ calls' = calls \o
                     (IF loaded
                      THEN <<Call("torch.load", "torch", "nn_encoder"),
                             Call("load_state_dict", "jasper_encoder", "new_ckpt")>>
                      ELSE <<Call("torch.load", "torch", "nn_encoder")>>)
               /\ ckpt' = IF loaded THEN c ELSE ckpt
               /\ new_ckpt' = IF loaded THEN RemapCheckpoint(c) ELSE new_ckpt
               /\ converted' = loaded
               /\ encoder_weights' =
                     IF loaded /\ applied
                     THEN [via |-> "load_state_dict", state |-> RemapCheckpoint(c)]
                     ELSE encoder_weights
               /\ Finish("load_encoder", loaded /\ applied, "load_decoder", "Exception")
       ELSE \E ok \in BOOLEAN :
               /\ calls' = Append(calls, Call("restore_from", "jasper_encoder", "nn_encoder"))
               /\ encoder_weights' =
                     IF ok THEN [via |-> "restore_from", src |-> "nn_encoder"]
                     ELSE encoder_weights
               /\ Finish("load_encoder", ok, "load_decoder", "Exception")
               /\ UNCHANGED remapVars
    /\ UNCHANGED <<config_file, decoder_type, pre_v09_model, nn_onnx_encoder,
                   nn_onnx_decoder, fs0, fs, jasper_model_definition, nf,
                   jasper_encoder, jasper_decoder, decoder_weights, mkdirs,
                   exported, lenetVars>>

\* line 105: jasper_decoder.restore_from(nn_decoder)
LoadDecoder ==
    /\ pc = "load_decoder"
    /\ \E ok \in BOOLEAN :
          /\ calls' = Append(calls, Call("restore_from", "jasper_decoder", "nn_decoder"))
          /\ decoder_weights' =
                IF ok THEN [via |-> "restore_from", src |-> "nn_decoder"]
                ELSE decoder_weights
          /\ Finish("load_decoder", ok, "ensure_dirs", "Exception")
    /\ UNCHANGED <<config_file, decoder_type, pre_v09_model, nn_onnx_encoder,
                   nn_onnx_decoder, fs0, fs, jasper_model_definition, nf,
                   jasper_encoder, jasper_decoder, encoder_weights, mkdirs,
                   exported, remapVars, lenetVars>>

\* lines 107-114: create the export directories if they don't already exist
EnsureOutputDirs ==
    /\ pc = "ensure_dirs"
    /\ \E allowed1, allowed2 \in BOOLEAN :
          LET first  == EnsureDir(fs, mkdirs, nn_onnx_encoder, allowed1)
              second == EnsureDir(first.fs, first.mkdirs, nn_onnx_decoder, allowed2)
              last   == IF first.ok THEN second ELSE first
          IN  /\ fs' = last.fs
              /\ mkdirs' = last.mkdirs
              /\ Finish("ensure_dirs", last.ok, "export_encoder", "OSError")
    /\ UNCHANGED <<config_file, decoder_type, pre_v09_model, nn_onnx_encoder,
                   nn_onnx_decoder, fs0, jasper_model_definition, nf,
                   jasper_encoder, jasper_decoder, encoder_weights,
                   decoder_weights, calls, exported, remapVars, lenetVars>>

\* lines 116-122: nf.deployment_export(jasper_encoder, nn_onnx_encoder, ...)
ExportEncoder ==
    /\ pc = "export_encoder"
    /\ \E traced \in BOOLEAN :
          LET ok == traced /\ CanWrite(fs, nn_onnx_encoder)
          IN  /\ exported' =
                    IF ok
                    THEN exported \cup {[module |-> "jasper_encoder", path |-> nn_onnx_encoder]}
                    ELSE exported
              /\ Finish("export_encoder", ok, "del_encoder", "Exception")
    /\ UNCHANGED <<config_file, decoder_type, pre_v09_model, nn_onnx_encoder,
                   nn_onnx_decoder, fs0, fs, jasper_model_definition, nf,
                   jasper_encoder, jasper_decoder, encoder_weights,
                   decoder_weights, calls, mkdirs, remapVars, lenetVars>>

\* Del that leaves the name bound
Del_Forgotten(module) == module

\* del <name>: the name is unbound and the module released
Del(module) == "deleted"

\* line 123: del jasper_encoder
DelEncoder ==
    /\ pc = "del_encoder"
    /\ jasper_encoder' = Del(jasper_encoder)
    /\ Finish("del_encoder", TRUE, "export_decoder", "none")
    /\ UNCHANGED <<config_file, decoder_type, pre_v09_model, nn_onnx_encoder,
                   nn_onnx_decoder, fs0, fs, jasper_model_definition, nf,
                   jasper_decoder, encoder_weights, decoder_weights, calls,
                   mkdirs, exported, remapVars, lenetVars>>

\* lines 124-130: nf.deployment_export(jasper_decoder, nn_onnx_decoder, ...)
ExportDecoder ==
    /\ pc = "export_decoder"
    /\ \E traced \in BOOLEAN :
          LET ok == traced /\ CanWrite(fs, nn_onnx_decoder)
          IN  /\ exported' =
                    IF ok
                    THEN exported \cup {[module |-> "jasper_decoder", path |-> nn_onnx_decoder]}
                    ELSE exported
              /\ Finish("export_decoder", ok, "del_decoder", "Exception")
    /\ UNCHANGED <<config_file, decoder_type, pre_v09_model, nn_onnx_encoder,
                   nn_onnx_decoder, fs0, fs, jasper_model_definition, nf,
                   jasper_encoder, jasper_decoder, encoder_weights,
                   decoder_weights, calls, mkdirs, remapVars, lenetVars>>

\* lines 131-132: del jasper_decoder; "Export completed successfully."
DelDecoder ==
    /\ pc = "del_decoder"
    /\ jasper_decoder' = Del(jasper_decoder)
    /\ Finish("del_decoder", TRUE, "done", "none")
    /\ UNCHANGED <<config_file, decoder_type, pre_v09_model, nn_onnx_encoder,
                   nn_onnx_decoder, fs0, fs, jasper_model_definition, nf,
                   jasper_encoder, encoder_weights, decoder_weights, calls,
                   mkdirs, exported, remapVars, lenetVars>>

Next ==
    \/ ParseConfig
    \/ CreateFactory
    \/ ConstructEncoder
    \/ ConstructDecoder
    \/ LoadEncoder
    \/ LoadDecoder
    \/ EnsureOutputDirs
    \/ ExportEncoder
    \/ DelEncoder
    \/ ExportDecoder
    \/ DelDecoder

\* one run of main()
Spec == InitMain /\ [][Next]_vars

----------------------------------------------------------------------------
(* LeNet5: self.model, layer by layer, on the shape of its input *)

\* lines 59-74: the torch.nn.Sequential of LeNet5.__init__
Layers ==
    <<[op |-> "Conv2d", cin |-> 1, cout |-> 6, k |-> 5],
      [op |-> "ReLU"],
      [op |-> "MaxPool2d", k |-> 2, stride |-> 2],
      [op |-> "Conv2d", cin |-> 6, cout |-> 16, k |-> 5],
      [op |-> "ReLU"],
      [op |-> "MaxPool2d", k |-> 2, stride |-> 2],
      [op |-> "Conv2d", cin |-> 16, cout |-> 120, k |-> 5],
      [op |-> "ReLU"],
      [op |-> "Flatten"],
      [op |-> "Linear", fin |-> 120, fout |-> 84],
      [op |-> "ReLU"],
      [op |-> "Linear", fin |-> 84, fout |-> 10],
      [op |-> "LogSoftmax", dim |-> 1]>>

\* ConvOut of a convolution padded to keep the size
ConvOut_SamePadding(n, k) == n

\* the output size of Conv2d along one axis: stride 1, no padding, no dilation
ConvOut(n, k) == n - k + 1

\* the output size of MaxPool2d along one axis: no padding, floor mode
PoolOut(n, k, stride) == (n - k) \div stride + 1

RECURSIVE Product(_, _)
\* the product of the sizes s[i..]
Product(s, i) == IF i > Len(s) THEN 1 ELSE s[i] * Product(s, i + 1)

\* the shape a layer gives for the input shape s, or its refusal
Apply(l, s) ==
    CASE l.op = "Conv2d" ->
            IF Len(s) = 4 /\ s[2] = l.cin /\ s[3] >= l.k /\ s[4] >= l.k
            THEN [ok |-> TRUE, shape |-> <<s[1], l.cout, ConvOut(s[3], l.k), ConvOut(s[4], l.k)>>]
            ELSE [ok |-> FALSE, shape |-> s]
      [] l.op = "MaxPool2d" ->
            IF Len(s) = 4 /\ s[3] >= l.k /\ s[4] >= l.k
            THEN [ok |-> TRUE,
                  shape |-> <<s[1], s[2], PoolOut(s[3], l.k, l.stride),
                              PoolOut(s[4], l.k, l.stride)>>]
            ELSE [ok |-> FALSE, shape |-> s]
      [] l.op = "Flatten" ->
            [ok |-> TRUE, shape |-> <<s[1], Product(s, 2)>>]
      [] l.op = "Linear" ->
            IF s[Len(s)] = l.fin
            THEN [ok |-> TRUE, shape |-> [s EXCEPT ![Len(s)] = l.fout]]
            ELSE [ok |-> FALSE, shape |-> s]
      [] l.op = "LogSoftmax" ->
            [ok |-> Len(s) > l.dim, shape |-> s]
      [] OTHER -> [ok |-> TRUE, shape |-> s]

\* image heights and widths: those of the input port, smaller, larger
ImageSizes == {28, 32, 36}

\* image channels: the one of the input port, and RGB
ImageChannels == {1, 3}

\* the port's sizes are not enforced: any batch of images may come in
InitLeNet ==
    /\ images \in {<<b, c, h, w>> : b \in 1..MaxBatch, c \in ImageChannels,
                                    h \in ImageSizes, w \in ImageSizes}
    /\ x = images
    /\ layer = 0
    /\ shape_error = FALSE
    /\ MainIdle
    /\ RemapIdle

\* forward: predictions = self.model(images), one layer at a time
ApplyLayer ==
    /\ layer < Len(Layers)
    /\ ~shape_error
    /\ LET r == Apply(Layers[layer + 1], x)
       IN  /\ x' = r.shape
           /\ shape_error' = ~r.ok
           /\ layer' = IF r.ok THEN layer + 1 ELSE layer
    /\ UNCHANGED <<images, mainVars, remapVars>>

NextLeNet == ApplyLayer

\* one forward pass of LeNet5
SpecLeNet == InitLeNet /\ [][NextLeNet]_vars

----------------------------------------------------------------------------
(* Properties of main() *)

\* the steps executed so far, as a set
Executed == {steps[i] : i \in 1..Len(steps)}

\* the positions of main() after the decoder was constructed
AfterConstruction ==
    {"load_encoder", "load_decoder", "ensure_dirs", "export_encoder",
     "del_encoder", "export_decoder", "del_decoder", "done"}

\* the run has touched neither the file system nor an output
NothingWritten ==
    /\ fs = fs0
    /\ \A d \in Dirs : mkdirs[d] = 0
    /\ exported = {}

\* C1: with a decoder_type other than 'ctc' and 'classification', a run that
\* gets to the decoder selection ends there with the ValueError for
\* decoder_type, and in every state of the run no checkpoint call
\* (torch.load, restore_from, load_state_dict) has been made, no directory
\* created and no artifact exported.
C1_UnknownDecoderTypeRaisesFirst ==
    decoder_type \notin {"ctc", "classification"} =>
        /\ calls = <<>>
        /\ NothingWritten
        /\ jasper_decoder = "unbound"
        /\ pc \notin AfterConstruction
        /\ "construct_decoder" \in Executed =>
              /\ pc = "failed"
              /\ failed_step = "construct_decoder"
              /\ error = "ValueError: decoder_type"

\* the run has ended with the ValueError for decoder_type
C1_Witness ==
    /\ decoder_type = "other"
    /\ pc = "failed"
    /\ error = "ValueError: decoder_type"
    /\ steps = <<"parse_config", "create_factory", "construct_encoder", "construct_decoder">>

\* C2 as stated: when the ValueError for the missing 'labels' is raised, no
\* module (neither the encoder nor the decoder) has been constructed.
C2_AsStated ==
    error = "ValueError: labels" =>
        jasper_encoder = "unbound" /\ jasper_decoder = "unbound"

\* C2 amended: with decoder_type 'classification' and a parsed config without
\* 'labels', a run that gets to the decoder selection ends there with the
\* ValueError for 'labels'; it is raised before the decoder is constructed
\* and before any checkpoint is read, and after the module factory and the
\* encoder have been constructed.
C2_MissingLabelsRaisesBeforeDecoder ==
    (/\ decoder_type = "classification"
     /\ jasper_model_definition.bound
     /\ "labels" \notin jasper_model_definition.keys) =>
        /\ jasper_decoder = "unbound"
        /\ calls = <<>>
        /\ pc \notin AfterConstruction
        /\ "construct_decoder" \in Executed =>
              /\ pc = "failed"
              /\ failed_step = "construct_decoder"
              /\ error = "ValueError: labels"
              /\ nf = "held"
              /\ jasper_encoder = "held"

\* the ValueError for 'labels' has been raised, the encoder is held
C2_Witness ==
    /\ decoder_type = "classification"
    /\ "labels" \notin jasper_model_definition.keys
    /\ error = "ValueError: labels"
    /\ pc = "failed"
    /\ jasper_encoder = "held"
    /\ jasper_decoder = "unbound"

\* the positions in calls of the calls of fn on the object `on`
CallsOf(fn, on) == {i \in 1..Len(calls) : calls[i].fn = fn /\ calls[i].on = on}

\* C4: with pre_v09_model set the encoder is loaded by torch.load, the
\* remapping and load_state_dict, and restore_from is never called on it;
\* with the flag clear it is loaded by restore_from and nothing is remapped.
\* In both cases the decoder is loaded exactly once, by restore_from on the
\* decoder checkpoint, after the encoder's weights are loaded.
C4_LegacyFlagOnlyChangesEncoderLoad ==
    /\ pre_v09_model =>
          /\ CallsOf("restore_from", "jasper_encoder") = {}
          /\ encoder_weights.via \in {"none", "load_state_dict"}
          /\ encoder_weights.via = "load_state_dict" =>
                /\ converted
                /\ new_ckpt = RemapCheckpoint(ckpt)
                /\ encoder_weights.state = new_ckpt
                /\ CallsOf("torch.load", "torch") = {1}
                /\ CallsOf("load_state_dict", "jasper_encoder") = {2}
    /\ ~pre_v09_model =>
          /\ CallsOf("torch.load", "torch") = {}
          /\ CallsOf("load_state_dict", "jasper_encoder") = {}
          /\ ~converted /\ ckpt = <<>> /\ new_ckpt = EmptyDict
          /\ encoder_weights.via \in {"none", "restore_from"}
          /\ encoder_weights.via = "restore_from" =>
                CallsOf("restore_from", "jasper_encoder") = {1}
    /\ \A i \in 1..Len(calls) :
          calls[i].on = "jasper_decoder" =>
              /\ calls[i] = Call("restore_from", "jasper_decoder", "nn_decoder")
              /\ i = Len(calls)
              /\ encoder_weights.via # "none"
    /\ decoder_weights.via \in {"none", "restore_from"}
    /\ decoder_weights.via = "restore_from" => decoder_weights.src = "nn_decoder"
    /\ pc \in (AfterConstruction \ {"load_encoder", "load_decoder"}) =>
          /\ encoder_weights.via # "none"
          /\ decoder_weights.via = "restore_from"
          /\ Cardinality(CallsOf("restore_from", "jasper_decoder")) = 1

\* a legacy run that completed: three checkpoint calls, the decoder's last
C4_Witness ==
    /\ pre_v09_model
    /\ pc = "done"
    /\ Len(ckpt) = 2
    /\ encoder_weights.via = "load_state_dict"
    /\ Len(calls) = 3
    /\ calls[3] = Call("restore_from", "jasper_decoder", "nn_decoder")

\* the artifact of a module, at its output path
EncoderArtifact == [module |-> "jasper_encoder", path |-> nn_onnx_encoder]
DecoderArtifact == [module |-> "jasper_decoder", path |-> nn_onnx_decoder]

\* a directory is created only when missing, and once
CreatedOnlyWhenMissing ==
    \A d \in Dirs :
        /\ mkdirs[d] <= 1
        /\ mkdirs[d] = 1 => fs0[d] = "absent" /\ fs[d] = "dir"
        /\ mkdirs[d] = 0 => fs[d] = fs0[d]

\* the directories are touched only by the step between loading and exporting
EnsuredBetweenLoadAndExport ==
    /\ fs # fs0 => {"load_encoder", "load_decoder", "ensure_dirs"} \subseteq Executed
    /\ "ensure_dirs" \notin Executed => "export_encoder" \notin Executed

\* C5 as stated: whenever an export starts, the parent directory of its
\* output path exists (or the path has no directory component); a directory
\* is created only when it is missing and never again.
C5_AsStated ==
    /\ pc = "export_encoder" =>
          /\ DirName(nn_onnx_encoder) = <<>> \/ fs[DirName(nn_onnx_encoder)] = "dir"
          /\ DirName(nn_onnx_decoder) = <<>> \/ fs[DirName(nn_onnx_decoder)] = "dir"
    /\ pc = "export_decoder" =>
          DirName(nn_onnx_decoder) = <<>> \/ fs[DirName(nn_onnx_decoder)] = "dir"
    /\ CreatedOnlyWhenMissing
    /\ EnsuredBetweenLoadAndExport

\* the parent of path is there: a directory, or what was a file at that path
\* when the run started
ParentThere(path) ==
    \/ DirName(path) = <<>>
    \/ /\ Exists(fs, DirName(path))
       /\ fs[DirName(path)] = "dir" \/ fs0[DirName(path)] = "file"

\* C5 amended: whenever an export starts, the parent of its output path
\* exists (or the path has no directory component), as a directory unless a
\* file was at that path when the run started; both parents are ensured
\* after weight loading and before the encoder export; a directory is
\* created only when it is missing and never again.
C5_ParentsExistWhenExportStarts ==
    /\ pc = "export_encoder" =>
          ParentThere(nn_onnx_encoder) /\ ParentThere(nn_onnx_decoder)
    /\ pc = "export_decoder" => ParentThere(nn_onnx_decoder)
    /\ CreatedOnlyWhenMissing
    /\ EnsuredBetweenLoadAndExport

\* both outputs in the same missing directory, created once with the one above
C5_Witness ==
    /\ pc = "export_decoder"
    /\ DirName(nn_onnx_encoder) = <<"out", "sub">>
    /\ DirName(nn_onnx_decoder) = <<"out", "sub">>
    /\ fs0[<<"out">>] = "absent"
    /\ mkdirs[<<"out">>] = 1
    /\ mkdirs[<<"out", "sub">>] = 1
    /\ fs[<<"out", "sub">>] = "dir"

\* C6 as stated: in every state of a run the encoder and the decoder are not
\* both held.
C6_AsStated == ~(jasper_encoder = "held" /\ jasper_decoder = "held")

\* C6 amended: the two modules are both held from the construction of the
\* decoder until the encoder is discarded after its export; from then on the
\* encoder is not held, so the decoder export runs with the decoder alone.
C6_BothHeldUntilEncoderDiscarded ==
    /\ (jasper_encoder = "held" /\ jasper_decoder = "held") =>
          /\ "del_encoder" \notin Executed
          /\ pc \in {"load_encoder", "load_decoder", "ensure_dirs",
                     "export_encoder", "del_encoder", "failed"}
    /\ pc \in {"load_encoder", "load_decoder", "ensure_dirs", "export_encoder",
               "del_encoder"} =>
          jasper_encoder = "held" /\ jasper_decoder = "held"
    /\ "del_encoder" \in Executed => jasper_encoder = "deleted"
    /\ pc = "export_decoder" => jasper_encoder = "deleted" /\ jasper_decoder = "held"

\* the decoder export is about to start: the encoder is exported and gone
C6_Witness ==
    /\ pc = "export_decoder"
    /\ EncoderArtifact \in exported
    /\ jasper_encoder = "deleted"
    /\ jasper_decoder = "held"

\* C7: a module is released right after its own export and never before it:
\* the encoder after the encoder export and before the decoder export
\* starts, the decoder after the decoder export; on success neither is held.
C7_ReleasedRightAfterOwnExport ==
    /\ jasper_encoder = "deleted" => EncoderArtifact \in exported
    /\ jasper_decoder = "deleted" => DecoderArtifact \in exported
    /\ (EncoderArtifact \in exported /\ jasper_encoder # "deleted") => pc = "del_encoder"
    /\ (DecoderArtifact \in exported /\ jasper_decoder # "deleted") => pc = "del_decoder"
    /\ "export_decoder" \in Executed => jasper_encoder = "deleted"
    /\ pc \in {"export_decoder", "del_decoder", "done"} => jasper_encoder = "deleted"
    /\ pc = "done" => jasper_encoder = "deleted" /\ jasper_decoder = "deleted"

\* the run succeeded: both exported, both released
C7_Witness ==
    /\ pc = "done"
    /\ exported = {EncoderArtifact, DecoderArtifact}
    /\ jasper_encoder = "deleted"
    /\ jasper_decoder = "deleted"

\* the steps the claim names, in its order
FixedSequence ==
    <<"parse_config", "construct_encoder", "construct_decoder", "load_encoder",
      "load_decoder", "ensure_dirs", "export_encoder", "export_decoder">>

InFixedSequence(step) == \E i \in 1..Len(FixedSequence) : FixedSequence[i] = step

\* the executed steps among those the claim names
NamedSteps == SelectSeq(steps, InFixedSequence)

\* C8: the steps executed form a prefix of the fixed sequence (parse config,
\* construct encoder, construct decoder, load encoder weights, load decoder
\* weights, ensure output directories, export encoder, export decoder), a
\* step that fails is the last step executed, no step is executed twice, and
\* success is reached only after both exports completed.
C8_AnyFailureAbortsTheRun ==
    /\ Len(NamedSteps) <= Len(FixedSequence)
    /\ NamedSteps = SubSeq(FixedSequence, 1, Len(NamedSteps))
    /\ \A i, j \in 1..Len(steps) : steps[i] = steps[j] => i = j
    /\ failed_step # "none" =>
          /\ pc = "failed"
          /\ error # "none"
          /\ steps[Len(steps)] = failed_step
    /\ pc = "failed" => failed_step # "none"
    /\ pc = "done" =>
          /\ failed_step = "none" /\ error = "none"
          /\ NamedSteps = FixedSequence
          /\ exported = {EncoderArtifact, DecoderArtifact}

\* the decoder's restore failed: six steps executed, the failed one last
C8_Witness ==
    /\ pc = "failed"
    /\ failed_step = "load_decoder"
    /\ NamedSteps = SubSeq(FixedSequence, 1, 5)
    /\ exported = {}

----------------------------------------------------------------------------
(* Properties of the legacy remapping *)

\* '.mconv.conv.weight'
MCONV_CONV_WEIGHT == <<".", "m", "conv", ".", "conv", ".", "weight">>
\* '.conv.conv.weight'
CONV_CONV_WEIGHT == <<".", "conv", ".", "conv", ".", "weight">>

\* the number of places where p occurs in s
Occurrences(s, p) == Cardinality({i \in 1..Len(s) : MatchAt(s, p, i)})

\* the keys of new_ckpt that hold the tensor of the i-th item of ckpt
NewKeysOf(i) == {nk \in DOMAIN new_ckpt : new_ckpt[nk] = ckpt[i].v}

\* a rank-3 tensor whose key contains '.conv.weight' is found under a key
\* that contains '.mconv.conv.weight'
RelocatedUnderMconv(i) ==
    (Contains(ckpt[i].k, CONV_WEIGHT) /\ ckpt[i].v.ndim = 3)
        => \E nk \in NewKeysOf(i) : Contains(nk, MCONV_CONV_WEIGHT)

\* a tensor of another rank whose key contains '.conv.' is found under the
\* key with its '.conv.' matches (str.replace's: left to right, not
\* overlapping) replaced by '.mconv.', and no '.conv.weight' is added
RenamedOnly(i) ==
    (Contains(ckpt[i].k, CONV) /\ ckpt[i].v.ndim # 3)
        => \E nk \in NewKeysOf(i) :
              /\ nk = Replace(ckpt[i].k, CONV, MCONV)
              /\ Contains(nk, MCONV)
              /\ Occurrences(nk, CONV_WEIGHT) <= Occurrences(ckpt[i].k, CONV_WEIGHT)

\* C3 as stated: for every checkpoint entry (key, tensor), a key containing
\* '.conv.weight' with a rank-3 tensor becomes a key containing
\* '.mconv.conv.weight', and a key containing '.conv.' with a tensor of
\* another rank has its '.conv.' replaced by '.mconv.' with no '.conv.'
\* inserted before '.weight'.
C3_AsStated ==
    converted => \A i \in 1..Len(ckpt) : RelocatedUnderMconv(i) /\ RenamedOnly(i)

\* C3 amended: a key containing '.conv.weight' with a rank-3 tensor becomes a
\* key containing '.mconv.' and '.conv.weight', and containing
\* '.mconv.conv.weight' unless the key contains '.conv.conv.weight' (the second
\* '.conv.' shares its dot with the first match and is not replaced); the
\* other half of the claim holds as stated.
C3_LegacyKeyRemapping ==
    converted =>
        \A i \in 1..Len(ckpt) :
            /\ (Contains(ckpt[i].k, CONV_WEIGHT) /\ ckpt[i].v.ndim = 3)
                  => \E nk \in NewKeysOf(i) :
                        /\ Contains(nk, MCONV)
                        /\ Contains(nk, CONV_WEIGHT)
                        /\ ~Contains(ckpt[i].k, CONV_CONV_WEIGHT)
                              => Contains(nk, MCONV_CONV_WEIGHT)
            /\ RenamedOnly(i)

\* 'x.conv.weight', a rank-3 tensor, is now under 'x.mconv.conv.weight'
C3_Witness ==
    /\ converted
    /\ ckpt = <<[k |-> <<"x", ".", "conv", ".", "weight">>, v |-> Tensor(3, 1)]>>
    /\ DOMAIN new_ckpt = {<<"x", ".", "m", "conv", ".", "conv", ".", "weight">>}

\* the key the loop gives the i-th item
Renamed(i) == RemapKey(ckpt[i].k, ckpt[i].v.ndim)

\* the key of the i-th item has nothing for the remapping to rewrite
NothingToRename(i) ==
    /\ ~Contains(ckpt[i].k, CONV)
    /\ ckpt[i].v.ndim = 3 => ~Contains(ckpt[i].k, WEIGHT)

\* a legacy checkpoint: no key uses the new convention's 'mconv'
LegacyNames == \A i \in 1..Len(ckpt) : ~Contains(ckpt[i].k, <<"m", "conv">>)

\* C10 as stated: for every legacy checkpoint, the remapped checkpoint has
\* exactly as many entries as the original, each original tensor appears
\* unchanged under its renamed key (no two legacy keys are mapped to one new
\* key), and a key with neither '.conv.' nor, for a rank-3 tensor, '.weight'
\* is kept unchanged.
C10_AsStated ==
    (converted /\ LegacyNames) =>
        /\ Cardinality(DOMAIN new_ckpt) = Len(ckpt)
        /\ \A i \in 1..Len(ckpt) : NewKeysOf(i) # {}
        /\ \A i, j \in 1..Len(ckpt) : i # j => NewKeysOf(i) \cap NewKeysOf(j) = {}
        /\ \A i \in 1..Len(ckpt) : NothingToRename(i) => ckpt[i].k \in NewKeysOf(i)

\* C10 amended: the remapping only renames keys but can lose entries. The
\* remapped checkpoint has at most as many entries as the original; each of
\* its entries holds, unchanged, an original tensor; an original entry is
\* missing exactly when a later item is renamed to the same key, and is
\* otherwise found under its renamed key alone; a key with neither '.conv.'
\* nor, for a rank-3 tensor, '.weight' is not renamed.
C10_RemapRenamesLastWins ==
    converted =>
        /\ Cardinality(DOMAIN new_ckpt) <= Len(ckpt)
        /\ \A nk \in DOMAIN new_ckpt : \E i \in 1..Len(ckpt) : new_ckpt[nk] = ckpt[i].v
        /\ \A i \in 1..Len(ckpt) :
              IF \E j \in (i + 1)..Len(ckpt) : Renamed(j) = Renamed(i)
              THEN NewKeysOf(i) = {}
              ELSE NewKeysOf(i) = {Renamed(i)}
        /\ \A i \in 1..Len(ckpt) :
              (NothingToRename(i) /\ NewKeysOf(i) # {}) => NewKeysOf(i) = {ckpt[i].k}

\* two items renamed to one key: only the second tensor is left
C10_Witness ==
    /\ converted
    /\ Len(ckpt) = 2
    /\ ckpt[1].k # ckpt[2].k
    /\ DOMAIN new_ckpt = {ckpt[2].k}
    /\ new_ckpt[ckpt[2].k] = ckpt[2].v
    /\ Contains(ckpt[1].k, CONV)

----------------------------------------------------------------------------
(* Properties of LeNet5 *)

\* the shape after n layers of a batch of b single-channel 32x32 images
ExpectedShape(b, n) ==
    CASE n = 0 -> <<b, 1, 32, 32>>
      [] n \in {1, 2} -> <<b, 6, 28, 28>>
      [] n = 3 -> <<b, 6, 14, 14>>
      [] n \in {4, 5} -> <<b, 16, 10, 10>>
      [] n = 6 -> <<b, 16, 5, 5>>
      [] n \in {7, 8} -> <<b, 120, 1, 1>>
      [] n = 9 -> <<b, 120>>
      [] n \in {10, 11} -> <<b, 84>>
      [] OTHER -> <<b, 10>>

\* C9: for a batch of B >= 1 single-channel 32x32 images no layer refuses its
\* input, the spatial size goes 32 -> 28 -> 14 -> 10 -> 5 -> 1, flattening
\* gives 120 features per image, the first linear layer's input size, and
\* the output has shape (B, 10).
C9_LeNet5Shapes ==
    (images[1] >= 1 /\ images[2] = 1 /\ images[3] = 32 /\ images[4] = 32) =>
        /\ ~shape_error
        /\ x = ExpectedShape(images[1], layer)
        /\ layer = Len(Layers) => x = <<images[1], 10>>

\* the forward pass of two 32x32 images is over
C9_Witness ==
    /\ images = <<2, 1, 32, 32>>
    /\ layer = Len(Layers)
    /\ x = <<2, 10>>
    /\ ~shape_error

====
